---- MODULE Spec2Model ----
(***************************************************************************)
(* Model of the relay-chain consensus import-queue verifier of Cumulus,    *)
(* client/consensus/relay-chain/src/import_queue.rs: Verifier::verify.     *)
(*                                                                         *)
(* One verification is a call of the async fn verify.  It suspends at its  *)
(* two .await points (create_inherent_data_providers, try_handle_error);   *)
(* create_inherent_data and check_inherents are synchronous calls.  Every  *)
(* call into the inherent-data providers and the runtime API is an oracle  *)
(* call whose answer is chosen by the environment and recorded in calls.   *)
(***************************************************************************)
EXTENDS Integers, Sequences, FiniteSets, TLC

(***************************************************************************)
(* Bounds of the model.                                                    *)
(***************************************************************************)
NumTasks == 2        \* verification slots of the model
MaxBody == 2         \* longest body, in extrinsics
MaxErrors == 2       \* longest error list of a CheckInherentsResult

Tasks == 1..NumTasks
\* verify takes &mut self: the calls on one verifier follow one another.
SeqTasks == {1}

(***************************************************************************)
(* Option and Result values.                                               *)
(***************************************************************************)
None == [tag |-> "None"]
Some(v) == [tag |-> "Some", val |-> v]
Ok(v) == [tag |-> "Ok", val |-> v]
Err(e) == [tag |-> "Err", val |-> e]
Pending == [tag |-> "Pending"]
Unit == "()"

(***************************************************************************)
(* Values the caller and the oracles can produce.                          *)
(***************************************************************************)
Origins == {"Genesis", "NetworkInitialSync", "NetworkBroadcast", "ConsensusBroadcast", "Own", "File"}
\* Two headers: a block and a child of it.
Headers == {[parent_hash |-> 1, number |-> 1], [parent_hash |-> 2, number |-> 2]}
Extrinsics == {"x1", "x2"}
JustificationsValues == {None, Some("j1")}

RECURSIVE SeqsUpTo(_, _)
SeqsUpTo(S, n) ==
    IF n = 0 THEN {<< >>}
    ELSE LET shorter == SeqsUpTo(S, n - 1)
         IN  shorter \cup {Append(s, x) : s \in {q \in shorter : Len(q) = n - 1}, x \in S}

Bodies == {None} \cup {Some(b) : b \in SeqsUpTo(Extrinsics, MaxBody)}

ProviderSets == {"idp1", "idp2"}
FactoryErrors == {"factory_err"}
InherentDatas == {"data1", "data2"}
DataErrors == {"data_err"}
ApiErrors == {"api_err"}
ProviderErrors == {"veto1", "veto2"}
Payloads == {"pl1", "pl2"}

\* InherentIdentifier = [u8; 8]: "sysi1337", "timstap0", and an identifier
\* that is not UTF-8.
Identifiers ==
    { <<115, 121, 115, 105, 49, 51, 51, 55>>,
      <<116, 105, 109, 115, 116, 97, 112, 48>>,
      <<255, 105, 109, 115, 116, 97, 112, 48>> }

\* Lexicographic order of identifiers, the key order of InherentData.
RECURSIVE BytesLess(_, _)
BytesLess(a, b) ==
    IF b = << >> THEN FALSE
    ELSE IF a = << >> THEN TRUE
    ELSE IF Head(a) # Head(b) THEN Head(a) < Head(b)
    ELSE BytesLess(Tail(a), Tail(b))

ErrorPairs == Identifiers \X Payloads

\* The error lists a CheckInherentsResult can hold: one entry per
\* identifier, iterated in key order.
ErrorLists ==
    {es \in SeqsUpTo(ErrorPairs, MaxErrors) :
        \A k \in 1..(Len(es) - 1) : BytesLess(es[k][1], es[k + 1][1])}

\* CheckInherentsResult: okay is cleared by the first put_error.
CheckResults ==
    {[okay |-> (es = << >>), errors |-> es] : es \in ErrorLists}

(***************************************************************************)
(* Pure helpers of verify.                                                 *)
(***************************************************************************)
\* String::from_utf8_lossy on identifiers whose non-ASCII bytes are 0xFE or
\* 0xFF (never part of a UTF-8 encoding): each becomes U+FFFD.
from_utf8_lossy(bytes) ==
    [k \in 1..Len(bytes) |-> IF bytes[k] < 128 THEN bytes[k] ELSE 65533]

\* e.to_string()
to_string(e) == [fmt |-> "{}", err |-> Some(e), id |-> << >>]
\* format!("{:?}", e)
format_debug(e) == [fmt |-> "{:?}", err |-> Some(e), id |-> << >>]
\* format!(..) of line 89, whose text is "Unhandled inherent error from"
\* and the identifier, lossily decoded, between backquotes.
format_unhandled(i) ==
    [fmt |-> "Unhandled inherent error from '{}'.", err |-> None, id |-> from_utf8_lossy(i)]

\* Block::new(header, extrinsics) and block.deconstruct()
BlockNew(h, xts) == [header |-> h, extrinsics |-> xts]
deconstruct(b) == <<b.header, b.extrinsics>>

\* header.hash(): a digest of every field of the header.
hash(h) == (h.parent_hash * 31 + h.number * 7 + 3) % 256

\* Mutant: every block is imported as the new best.
block_import_params_always_best(o, h, j, b) ==
    [origin |-> o, header |-> h, body |-> b, justifications |-> j,
     fork_choice |-> Some([Custom |-> TRUE]),
     post_hash |-> Some(hash(h))]

\* Mutant: the parent's hash is attached as the block's own.
block_import_params_parent_hash(o, h, j, b) ==
    [origin |-> o, header |-> h, body |-> b, justifications |-> j,
     fork_choice |-> Some([Custom |-> (o = "NetworkInitialSync")]),
     post_hash |-> Some(h.parent_hash)]

\* Mutant: line 104 is left out, the justifications are lost.
block_import_params_no_justifications(o, h, j, b) ==
    [origin |-> o, header |-> h, body |-> b, justifications |-> None,
     fork_choice |-> Some([Custom |-> (o = "NetworkInitialSync")]),
     post_hash |-> Some(hash(h))]

\* BlockImportParams::new(origin, header) and the assignments after it.
block_import_params(o, h, j, b) ==
    [origin |-> o, header |-> h, body |-> b, justifications |-> j,
     fork_choice |-> Some([Custom |-> (o = "NetworkInitialSync")]),
     post_hash |-> Some(hash(h))]

\* Ok((block_import_params, None))
Accept(o, h, j, b) == Ok(<<block_import_params(o, h, j, b), None>>)

\* The handles the Verifier struct holds: the client and the factory of
\* inherent data providers.
VerifierHandles == [client |-> "client", create_inherent_data_providers |-> "cidp"]

VARIABLES
    verifier,                 \* the fields of the Verifier (self)
    pc,                       \* position of each verification
    request,                  \* the arguments the caller passed to verify
    body,                     \* local body (taken at line 62)
    inner_body,               \* local inner_body until moved into block
    inherent_data_providers,  \* local, result of the factory
    inherent_data,            \* local, until moved into check_inherents
    block,                    \* local block
    inherent_res,             \* local, the CheckInherentsResult
    errors_pos,               \* position of the for loop in into_errors()
    calls,                    \* oracle calls made by this verification
    result,                   \* value returned by verify
    dropped                   \* the caller dropped the last future unfinished

vars == <<verifier, pc, request, body, inner_body, inherent_data_providers, inherent_data,
          block, inherent_res, errors_pos, calls, result, dropped>>

Init ==
    /\ verifier = VerifierHandles
    /\ pc = [t \in Tasks |-> "Idle"]
    /\ request = [t \in Tasks |-> None]
    /\ body = [t \in Tasks |-> None]
    /\ inner_body = [t \in Tasks |-> None]
    /\ inherent_data_providers = [t \in Tasks |-> None]
    /\ inherent_data = [t \in Tasks |-> None]
    /\ block = [t \in Tasks |-> None]
    /\ inherent_res = [t \in Tasks |-> None]
    /\ errors_pos = [t \in Tasks |-> 0]
    /\ calls = [t \in Tasks |-> << >>]
    /\ result = [t \in Tasks |-> None]
    /\ dropped = [t \in Tasks |-> FALSE]

(***************************************************************************)
(* Fragments of verify.                                                    *)
(***************************************************************************)
\* Mutant: the errors are walked from the last to the first.
into_errors_reversed(res) ==
    [k \in 1..Len(res.errors) |-> res.errors[Len(res.errors) + 1 - k]]

\* inherent_res.into_errors(): the errors in the order the result holds them.
into_errors(res) == res.errors

\* Mutant: an error no provider handles is skipped.
try_handle_error_arm_skip_unhandled(r, i) ==
    IF r.tag = "Some"
    THEN (IF r.val.tag = "Ok" THEN Ok(Unit) ELSE Err(format_debug(r.val.val)))
    ELSE Ok(Unit)

\* Mutant: the message of an unhandled error leaves the identifier out.
try_handle_error_arm_anonymous(r, i) ==
    IF r.tag = "Some"
    THEN (IF r.val.tag = "Ok" THEN Ok(Unit) ELSE Err(format_debug(r.val.val)))
    ELSE Err(format_unhandled(<< >>))

\* Mutant: the provider's verdict is dropped, only "handled" counts.
try_handle_error_arm_ignore_veto(r, i) ==
    IF r.tag = "Some" THEN Ok(Unit) ELSE Err(format_unhandled(i))

\* The match on try_handle_error's answer: Ok(()) lets the loop go on, Err
\* is the early return of the ? operator.
try_handle_error_arm(r, i) ==
    IF r.tag = "Some"
    THEN (IF r.val.tag = "Ok" THEN Ok(Unit) ELSE Err(format_debug(r.val.val)))
    ELSE Err(format_unhandled(i))

\* The entry the oracle-call log gets for each call.
CallProviders(h) ==
    [op |-> "create_inherent_data_providers", parent |-> h.parent_hash,
     extra |-> Unit, ret |-> Pending]
CallCreateData(p, r) ==
    [op |-> "create_inherent_data", providers |-> p, ret |-> r]
CallCheck_at_block_hash(h, b, d, r) ==
    [op |-> "check_inherents", at |-> hash(h), block |-> b,
     inherent_data |-> d, ret |-> r]
CallCheck(h, b, d, r) ==
    [op |-> "check_inherents", at |-> h.parent_hash, block |-> b,
     inherent_data |-> d, ret |-> r]
CallTryHandle(p, e) ==
    [op |-> "try_handle_error", providers |-> p, id |-> e[1], error |-> e[2],
     ret |-> Pending]

\* The pending call of the log gets its answer.
Answered(log, r) == [log EXCEPT ![Len(log)].ret = r]

\* Early return Err(s).
Reject(t, s) ==
    /\ pc' = [pc EXCEPT ![t] = "Done"]
    /\ result' = [result EXCEPT ![t] = Some(Err(s))]
    /\ UNCHANGED body

\* Mutant: lines 97-98 are left out, body stays taken.
ReattachAndAccept_body_not_restored(t) ==
    LET a == request[t].val
    IN  /\ pc' = [pc EXCEPT ![t] = "Done"]
        /\ body' = body
        /\ result' = [result EXCEPT ![t] =
                         Some(Accept(a.origin, a.header, a.justifications, body[t]))]

\* Mutant: the block is kept in one place shared by all verifications, the
\* last one stored wins.
ReattachAndAccept_shared_block(t) ==
    LET a == request[t].val
        holders == {u \in Tasks : block[u].tag = "Some"}
        last == CHOOSE u \in holders : \A v \in holders : v <= u
        b == Some(deconstruct(block[last].val)[2])
    IN  /\ pc' = [pc EXCEPT ![t] = "Done"]
        /\ body' = [body EXCEPT ![t] = b]
        /\ result' = [result EXCEPT ![t] =
                         Some(Accept(a.origin, a.header, a.justifications, b))]

\* Lines 97-113: the body goes back into body, the import parameters are
\* built and returned.
ReattachAndAccept(t) ==
    LET a == request[t].val
        b == Some(deconstruct(block[t].val)[2])
    IN  /\ pc' = [pc EXCEPT ![t] = "Done"]
        /\ body' = [body EXCEPT ![t] = b]
        /\ result' = [result EXCEPT ![t] =
                         Some(Accept(a.origin, a.header, a.justifications, b))]

\* Mutant: the loop stops one error early.
ResolveErrors_stops_early(t, res, pos, log) ==
    LET errs == into_errors(res)
    IN  /\ errors_pos' = [errors_pos EXCEPT ![t] = pos]
        /\ IF pos < Len(errs)
           THEN /\ calls' = [calls EXCEPT ![t] =
                      Append(log, CallTryHandle(inherent_data_providers[t].val, errs[pos]))]
                /\ pc' = [pc EXCEPT ![t] = "ResolvingErrors"]
                /\ UNCHANGED <<body, result>>
           ELSE /\ calls' = [calls EXCEPT ![t] = log]
                /\ ReattachAndAccept(t)

\* The for loop from position pos on: the next try_handle_error call is
\* made, or the loop is over.
ResolveErrors(t, res, pos, log) ==
    LET errs == into_errors(res)
    IN  /\ errors_pos' = [errors_pos EXCEPT ![t] = pos]
        /\ IF pos <= Len(errs)
           THEN /\ calls' = [calls EXCEPT ![t] =
                      Append(log, CallTryHandle(inherent_data_providers[t].val, errs[pos]))]
                /\ pc' = [pc EXCEPT ![t] = "ResolvingErrors"]
                /\ UNCHANGED <<body, result>>
           ELSE /\ calls' = [calls EXCEPT ![t] = log]
                /\ ReattachAndAccept(t)

(***************************************************************************)
(* Actions.                                                                *)
(***************************************************************************)
\* Mutant: an absent body is checked as an empty one.
VerifyCall_checks_header_only(t, o, h, j, b) ==
    /\ pc[t] = "Idle"
    /\ request' = [request EXCEPT ![t] =
                      Some([origin |-> o, header |-> h, justifications |-> j, body |-> b])]
    /\ body' = [body EXCEPT ![t] = None]
    /\ inner_body' = [inner_body EXCEPT ![t] = IF b.tag = "Some" THEN b ELSE Some(<< >>)]
    /\ calls' = [calls EXCEPT ![t] = <<CallProviders(h)>>]
    /\ pc' = [pc EXCEPT ![t] = "FetchingBundle"]
    /\ dropped' = [dropped EXCEPT ![t] = FALSE]
    /\ UNCHANGED <<verifier, result, inherent_data_providers, inherent_data, block,
                   inherent_res, errors_pos>>

\* verify(origin, header, justifications, body) is called: line 62, and for
\* a header-only block lines 101-113.
VerifyCall(t, o, h, j, b) ==
    /\ pc[t] = "Idle"
    /\ request' = [request EXCEPT ![t] =
                      Some([origin |-> o, header |-> h, justifications |-> j, body |-> b])]
    /\ body' = [body EXCEPT ![t] = None]
    /\ IF b.tag = "Some"
       THEN /\ inner_body' = [inner_body EXCEPT ![t] = b]
            /\ calls' = [calls EXCEPT ![t] = <<CallProviders(h)>>]
            /\ pc' = [pc EXCEPT ![t] = "FetchingBundle"]
            /\ UNCHANGED result
       ELSE /\ pc' = [pc EXCEPT ![t] = "Done"]
            /\ result' = [result EXCEPT ![t] = Some(Accept(o, h, j, None))]
            /\ UNCHANGED <<inner_body, calls>>
    /\ dropped' = [dropped EXCEPT ![t] = FALSE]
    /\ UNCHANGED <<verifier, inherent_data_providers, inherent_data, block, inherent_res,
                   errors_pos>>

\* Mutant: a failed factory call is made a second time.
CreateInherentDataProvidersReturn_retries_once(t, r) ==
    /\ pc[t] = "FetchingBundle"
    /\ IF r.tag = "Err"
       THEN /\ IF Len(calls[t]) = 1
               THEN /\ calls' = [calls EXCEPT ![t] =
                          Append(Answered(calls[t], r), CallProviders(request[t].val.header))]
                    /\ UNCHANGED <<pc, body, result>>
               ELSE /\ calls' = [calls EXCEPT ![t] = Answered(calls[t], r)]
                    /\ Reject(t, to_string(r.val))
            /\ UNCHANGED inherent_data_providers
       ELSE /\ calls' = [calls EXCEPT ![t] = Answered(calls[t], r)]
            /\ inherent_data_providers' = [inherent_data_providers EXCEPT ![t] = Some(r.val)]
            /\ pc' = [pc EXCEPT ![t] = "CreateInherentData"]
            /\ UNCHANGED <<body, result>>
    /\ UNCHANGED <<verifier, dropped, request, inner_body, inherent_data, block,
                   inherent_res, errors_pos>>

\* Lines 63-67: the factory's future resolves with r.
CreateInherentDataProvidersReturn(t, r) ==
    /\ pc[t] = "FetchingBundle"
    /\ calls' = [calls EXCEPT ![t] = Answered(calls[t], r)]
    /\ IF r.tag = "Err"
       THEN /\ Reject(t, to_string(r.val))
            /\ UNCHANGED inherent_data_providers
       ELSE /\ inherent_data_providers' = [inherent_data_providers EXCEPT ![t] = Some(r.val)]
            /\ pc' = [pc EXCEPT ![t] = "CreateInherentData"]
            /\ UNCHANGED <<body, result>>
    /\ UNCHANGED <<verifier, dropped, request, inner_body, inherent_data, block,
                   inherent_res, errors_pos>>

\* Mutant: a failure of create_inherent_data() is replaced by empty data.
CreateInherentData_unwrap_or_default(t, r) ==
    /\ pc[t] = "CreateInherentData"
    /\ calls' = [calls EXCEPT ![t] =
                    Append(calls[t], CallCreateData(inherent_data_providers[t].val, r))]
    /\ inherent_data' = [inherent_data EXCEPT ![t] =
                            IF r.tag = "Err" THEN Some("default") ELSE Some(r.val)]
    /\ block' = [block EXCEPT ![t] =
                    Some(BlockNew(request[t].val.header, inner_body[t].val))]
    /\ inner_body' = [inner_body EXCEPT ![t] = None]
    /\ pc' = [pc EXCEPT ![t] = "Checking"]
    /\ UNCHANGED <<verifier, dropped, body, result, request, inherent_data_providers,
                   inherent_res, errors_pos>>

\* Lines 69-73: create_inherent_data() answers r; on success the block is
\* put together.
CreateInherentData(t, r) ==
    /\ pc[t] = "CreateInherentData"
    /\ calls' = [calls EXCEPT ![t] =
                    Append(calls[t], CallCreateData(inherent_data_providers[t].val, r))]
    /\ IF r.tag = "Err"
       THEN /\ Reject(t, format_debug(r.val))
            /\ UNCHANGED <<inherent_data, block, inner_body>>
       ELSE /\ inherent_data' = [inherent_data EXCEPT ![t] = Some(r.val)]
            /\ block' = [block EXCEPT ![t] =
                            Some(BlockNew(request[t].val.header, inner_body[t].val))]
            /\ inner_body' = [inner_body EXCEPT ![t] = None]
            /\ pc' = [pc EXCEPT ![t] = "Checking"]
            /\ UNCHANGED <<body, result>>
    /\ UNCHANGED <<verifier, dropped, request, inherent_data_providers, inherent_res, errors_pos>>

\* Mutant: a failed check_inherents call counts as a clean report.
CheckInherents_error_is_ok(t, r) ==
    LET log == Append(calls[t],
                   CallCheck(request[t].val.header, block[t].val, inherent_data[t].val, r))
    IN  /\ pc[t] = "Checking"
        /\ inherent_data' = [inherent_data EXCEPT ![t] = None]
        /\ IF r.tag = "Err" \/ r.val.okay
           THEN /\ calls' = [calls EXCEPT ![t] = log]
                /\ inherent_res' = [inherent_res EXCEPT ![t] =
                       IF r.tag = "Err" THEN Some([okay |-> TRUE, errors |-> << >>])
                       ELSE Some(r.val)]
                /\ ReattachAndAccept(t)
                /\ UNCHANGED errors_pos
           ELSE /\ inherent_res' = [inherent_res EXCEPT ![t] = Some(r.val)]
                /\ ResolveErrors(t, r.val, 1, log)
        /\ UNCHANGED <<verifier, dropped, request, inner_body, inherent_data_providers, block>>

\* Lines 75-95, to the first try_handle_error call: check_inherents
\* answers r.
CheckInherents(t, r) ==
    LET log == Append(calls[t],
                   CallCheck(request[t].val.header, block[t].val, inherent_data[t].val, r))
    IN  /\ pc[t] = "Checking"
        /\ inherent_data' = [inherent_data EXCEPT ![t] = None]
        /\ IF r.tag = "Err"
           THEN /\ calls' = [calls EXCEPT ![t] = log]
                /\ Reject(t, format_debug(r.val))
                /\ UNCHANGED <<inherent_res, errors_pos>>
           ELSE /\ inherent_res' = [inherent_res EXCEPT ![t] = Some(r.val)]
                /\ IF r.val.okay
                   THEN /\ calls' = [calls EXCEPT ![t] = log]
                        /\ ReattachAndAccept(t)
                        /\ UNCHANGED errors_pos
                   ELSE ResolveErrors(t, r.val, 1, log)
        /\ UNCHANGED <<verifier, dropped, request, inner_body, inherent_data_providers, block>>

\* Mutant: after a recovered error the loop jumps over the next one.
TryHandleErrorReturn_skips_next(t, r) ==
    LET log == Answered(calls[t], r)
        e == into_errors(inherent_res[t].val)[errors_pos[t]]
        arm == try_handle_error_arm(r, e[1])
    IN  /\ pc[t] = "ResolvingErrors"
        /\ IF arm.tag = "Err"
           THEN /\ calls' = [calls EXCEPT ![t] = log]
                /\ Reject(t, arm.val)
                /\ UNCHANGED errors_pos
           ELSE ResolveErrors(t, inherent_res[t].val, errors_pos[t] + 2, log)
        /\ UNCHANGED <<verifier, dropped, request, inner_body, inherent_data_providers,
                       inherent_data,
                       block, inherent_res>>

\* Mutant: the future of try_handle_error is never resumed.
TryHandleErrorReturn_never_resumes(t, r) ==
    /\ pc[t] = "ResolvingErrors"
    /\ FALSE
    /\ UNCHANGED vars

\* Lines 87-94: the try_handle_error future of the current error resolves
\* with r.
TryHandleErrorReturn(t, r) ==
    LET log == Answered(calls[t], r)
        e == into_errors(inherent_res[t].val)[errors_pos[t]]
        arm == try_handle_error_arm(r, e[1])
    IN  /\ pc[t] = "ResolvingErrors"
        /\ IF arm.tag = "Err"
           THEN /\ calls' = [calls EXCEPT ![t] = log]
                /\ Reject(t, arm.val)
                /\ UNCHANGED errors_pos
           ELSE ResolveErrors(t, inherent_res[t].val, errors_pos[t] + 1, log)
        /\ UNCHANGED <<verifier, dropped, request, inner_body, inherent_data_providers,
                       inherent_data,
                       block, inherent_res>>

\* The caller has the value verify returned; the locals are dropped.
Return(t) ==
    /\ pc[t] = "Done"
    /\ pc' = [pc EXCEPT ![t] = "Idle"]
    /\ request' = [request EXCEPT ![t] = None]
    /\ body' = [body EXCEPT ![t] = None]
    /\ inner_body' = [inner_body EXCEPT ![t] = None]
    /\ inherent_data_providers' = [inherent_data_providers EXCEPT ![t] = None]
    /\ inherent_data' = [inherent_data EXCEPT ![t] = None]
    /\ block' = [block EXCEPT ![t] = None]
    /\ inherent_res' = [inherent_res EXCEPT ![t] = None]
    /\ errors_pos' = [errors_pos EXCEPT ![t] = 0]
    /\ calls' = [calls EXCEPT ![t] = << >>]
    /\ result' = [result EXCEPT ![t] = None]
    /\ UNCHANGED <<verifier, dropped>>

\* Mutant: a dropped verification leaves its providers behind.
Cancel_keeps_providers(t) ==
    /\ pc[t] \in {"FetchingBundle", "ResolvingErrors"}
    /\ pc' = [pc EXCEPT ![t] = "Idle"]
    /\ request' = [request EXCEPT ![t] = None]
    /\ body' = [body EXCEPT ![t] = None]
    /\ inner_body' = [inner_body EXCEPT ![t] = None]
    /\ inherent_data' = [inherent_data EXCEPT ![t] = None]
    /\ block' = [block EXCEPT ![t] = None]
    /\ inherent_res' = [inherent_res EXCEPT ![t] = None]
    /\ errors_pos' = [errors_pos EXCEPT ![t] = 0]
    /\ calls' = [calls EXCEPT ![t] = << >>]
    /\ dropped' = [dropped EXCEPT ![t] = TRUE]
    /\ UNCHANGED <<verifier, result, inherent_data_providers>>

\* The caller drops the future of verify while it is suspended at one of
\* its two .await points (lines 66 and 87): the locals are dropped, nothing
\* is returned.
Cancel(t) ==
    /\ pc[t] \in {"FetchingBundle", "ResolvingErrors"}
    /\ pc' = [pc EXCEPT ![t] = "Idle"]
    /\ request' = [request EXCEPT ![t] = None]
    /\ body' = [body EXCEPT ![t] = None]
    /\ inner_body' = [inner_body EXCEPT ![t] = None]
    /\ inherent_data_providers' = [inherent_data_providers EXCEPT ![t] = None]
    /\ inherent_data' = [inherent_data EXCEPT ![t] = None]
    /\ block' = [block EXCEPT ![t] = None]
    /\ inherent_res' = [inherent_res EXCEPT ![t] = None]
    /\ errors_pos' = [errors_pos EXCEPT ![t] = 0]
    /\ calls' = [calls EXCEPT ![t] = << >>]
    /\ dropped' = [dropped EXCEPT ![t] = TRUE]
    /\ UNCHANGED <<verifier, result>>

\* The answers the oracles can give.
ProvidersAnswers == {Err(e) : e \in FactoryErrors} \cup {Ok(p) : p \in ProviderSets}
DataAnswers == {Err(e) : e \in DataErrors} \cup {Ok(d) : d \in InherentDatas}
CheckAnswers == {Err(e) : e \in ApiErrors} \cup {Ok(res) : res \in CheckResults}
TryHandleAnswers == {None, Some(Ok(Unit))} \cup {Some(Err(e)) : e \in ProviderErrors}

Next ==
    \E t \in SeqTasks :
        \/ \E o \in Origins, h \in Headers, j \in JustificationsValues, b \in Bodies :
               VerifyCall(t, o, h, j, b)
        \/ \E r \in ProvidersAnswers : CreateInherentDataProvidersReturn(t, r)
        \/ \E r \in DataAnswers : CreateInherentData(t, r)
        \/ \E r \in CheckAnswers : CheckInherents(t, r)
        \/ \E r \in TryHandleAnswers : TryHandleErrorReturn(t, r)
        \/ Return(t)
        \/ Cancel(t)

Spec == Init /\ [][Next]_vars

(***************************************************************************)
(* Several verifications in flight at once, as when verifiers that share   *)
(* the client run side by side: every task steps, the steps interleave at  *)
(* the oracle calls.  Each task verifies its own block; the oracles answer *)
(* from smaller sets.                                                      *)
(***************************************************************************)
ConcOrigins(t) == IF t % 2 = 1 THEN {"NetworkInitialSync"} ELSE {"Own"}
ConcHeaders(t) == {h \in Headers : h.number % 2 = t % 2}
ConcJustifications(t) == IF t % 2 = 1 THEN {None} ELSE {Some("j1")}
ConcBodies(t) == {None, Some(IF t % 2 = 1 THEN <<"x1">> ELSE <<"x2">>)}

ConcDataAnswers == {Err(e) : e \in DataErrors} \cup {Ok("data1")}
ConcCheckAnswers ==
    {Err(e) : e \in ApiErrors} \cup
    {Ok(res) : res \in {cr \in CheckResults :
        \A k \in 1..Len(cr.errors) :
            cr.errors[k][1][1] < 128 /\ cr.errors[k][2] = "pl1"}}
ConcTryHandleAnswers == {None, Some(Ok(Unit)), Some(Err("veto1"))}

\* The steps of task t that an oracle's answer, or verify itself, takes.
ConcProgress(t) ==
    \/ \E r \in ProvidersAnswers : CreateInherentDataProvidersReturn(t, r)
    \/ \E r \in ConcDataAnswers : CreateInherentData(t, r)
    \/ \E r \in ConcCheckAnswers : CheckInherents(t, r)
    \/ \E r \in ConcTryHandleAnswers : TryHandleErrorReturn(t, r)

ConcStep(t) ==
    \/ \E o \in ConcOrigins(t), h \in ConcHeaders(t), j \in ConcJustifications(t),
          b \in ConcBodies(t) :
           VerifyCall(t, o, h, j, b)
    \/ ConcProgress(t)
    \/ Return(t)
    \/ Cancel(t)

ConcNext == \E t \in Tasks : ConcStep(t)

SpecConc == Init /\ [][ConcNext]_vars

\* Every oracle call returns and the executor polls the future again: the
\* steps of a verification that is not dropped are taken.  Two
\* verifications run side by side.
LiveTasks == {t \in Tasks : t <= 2}
LiveNext == \E t \in LiveTasks : ConcStep(t)
SpecLive == Init /\ [][LiveNext]_vars /\ \A t \in LiveTasks : WF_vars(ConcProgress(t))

(***************************************************************************)
(* Vocabulary of the properties.                                           *)
(*   expected_data = create_inherent_data_providers + create_inherent_data *)
(*   check         = check_inherents                                       *)
(*   try_recover   = try_handle_error                                      *)
(***************************************************************************)
CallsOf(t, op) == SelectSeq(calls[t], LAMBDA c : c.op = op)
Invoked(t, op) == \E k \in 1..Len(calls[t]) : calls[t][k].op = op

Running(t) == pc[t] # "Idle"
Done(t) == pc[t] = "Done"
Accepted(t) == Done(t) /\ result[t].val.tag = "Ok"
Rejected(t) == Done(t) /\ result[t].val.tag = "Err"
\* The import parameters of an accepted block, the reason of a rejected one.
ImportRequest(t) == result[t].val.val[1]
Reason(t) == result[t].val.val

HasBody(t) == Running(t) /\ request[t].val.body.tag = "Some"
HeaderOnly(t) == Running(t) /\ request[t].val.body.tag = "None"

\* The answer of an oracle call the verification has made, if it has one.
Answer(t, op) == CallsOf(t, op)[1].ret
Answered_(t, op, tag) == Invoked(t, op) /\ Answer(t, op).tag = tag

\* expected_data failed: the factory did, or building the bundle did.
ExpectedDataFailed(t) ==
    \/ Answered_(t, "create_inherent_data_providers", "Err")
    \/ Answered_(t, "create_inherent_data", "Err")
ExpectedDataSucceeded(t) ==
    /\ Answered_(t, "create_inherent_data_providers", "Ok")
    /\ Answered_(t, "create_inherent_data", "Ok")

\* check returned a report.
CheckSucceeded(t) == Answered_(t, "check_inherents", "Ok")
CheckFailed(t) == Answered_(t, "check_inherents", "Err")
\* The errors of the report, as the oracle returned them.
ReportErrors(t) == Answer(t, "check_inherents").val.errors
AllConsistent(t) == CheckSucceeded(t) /\ Answer(t, "check_inherents").val.okay
Mismatches(t) == CheckSucceeded(t) /\ ~Answer(t, "check_inherents").val.okay

\* The try_recover calls, in the order they were made.
Tries(t) == CallsOf(t, "try_handle_error")
Recovered(c) == c.ret = Some(Ok(Unit))
Unhandled(c) == c.ret = None
Vetoed(c) == c.ret.tag = "Some" /\ c.ret.val.tag = "Err"
\* try_recover was asked about error e.
AskedAbout(c, e) == c.id = e[1] /\ c.error = e[2]

(***************************************************************************)
(* C1: a block with a body is accepted only if expected_data succeeded,    *)
(* check succeeded, and try_recover answered Some(Ok(())) for every error  *)
(* of the check report.                                                    *)
(***************************************************************************)
C1_AcceptedOnlyIfAllRecovered ==
    \A t \in Tasks :
        (Accepted(t) /\ HasBody(t)) =>
            /\ ExpectedDataSucceeded(t)
            /\ CheckSucceeded(t)
            /\ \A k \in 1..Len(ReportErrors(t)) :
                   \E n \in 1..Len(Tries(t)) :
                       /\ AskedAbout(Tries(t)[n], ReportErrors(t)[k])
                       /\ Recovered(Tries(t)[n])

\* An accepted block whose report held two mismatches.
C1_Witness ==
    \E t \in Tasks :
        Accepted(t) /\ HasBody(t) /\ CheckSucceeded(t) /\ Len(ReportErrors(t)) = 2

(***************************************************************************)
(* C2: a header-only block (body absent) is accepted with body absent,     *)
(* whatever its origin, and no oracle call is made for it: neither         *)
(* expected_data, nor check, nor try_recover.                              *)
(***************************************************************************)
C2_HeaderOnlyAcceptedUnchecked ==
    \A t \in Tasks :
        HeaderOnly(t) =>
            /\ Accepted(t)
            /\ ImportRequest(t).body = None
            /\ calls[t] = << >>

\* A header-only block of the local node has been verified.
C2_Witness ==
    \E t \in Tasks :
        HeaderOnly(t) /\ Accepted(t) /\ request[t].val.origin = "Own"

(***************************************************************************)
(* C3: when expected_data fails (the provider factory fails, or building   *)
(* the bundle from the providers fails) the block is rejected with the     *)
(* rendering of that construction error as the reason, and neither check   *)
(* nor try_recover is called.                                              *)
(***************************************************************************)
C3_ExpectedDataFailureRejects ==
    \A t \in Tasks :
        /\ Answered_(t, "create_inherent_data_providers", "Err") =>
               /\ Rejected(t)
               /\ Reason(t) = to_string(Answer(t, "create_inherent_data_providers").val)
        /\ Answered_(t, "create_inherent_data", "Err") =>
               /\ Rejected(t)
               /\ Reason(t) = format_debug(Answer(t, "create_inherent_data").val)
        /\ ExpectedDataFailed(t) =>
               /\ ~Invoked(t, "check_inherents")
               /\ ~Invoked(t, "try_handle_error")

\* The factory gave providers, and they failed to build the bundle.
C3_Witness ==
    \E t \in Tasks :
        /\ HasBody(t)
        /\ Answered_(t, "create_inherent_data_providers", "Ok")
        /\ Answered_(t, "create_inherent_data", "Err")
        /\ Rejected(t)

(***************************************************************************)
(* C4: when expected_data succeeds and the check call itself fails, the    *)
(* block is rejected with the rendering of that runtime error as the       *)
(* reason and try_recover is never called; a check that succeeds with a    *)
(* report carrying errors is another case: it leads to try_recover.        *)
(***************************************************************************)
C4_CheckFailureRejects ==
    \A t \in Tasks :
        /\ CheckFailed(t) =>
               /\ ExpectedDataSucceeded(t)
               /\ Rejected(t)
               /\ Reason(t) = format_debug(Answer(t, "check_inherents").val)
               /\ ~Invoked(t, "try_handle_error")
        /\ Mismatches(t) =>
               /\ Invoked(t, "try_handle_error")
               /\ Rejected(t) => Reason(t).err \notin {Some(e) : e \in ApiErrors}

\* The runtime API call failed for a block with a body of two extrinsics.
C4_Witness ==
    \E t \in Tasks :
        /\ HasBody(t) /\ Len(request[t].val.body.val) = 2
        /\ CheckFailed(t)
        /\ Rejected(t)

(***************************************************************************)
(* C5: when expected_data succeeds and check reports "all consistent",     *)
(* the block is accepted, the body of the import request is the original   *)
(* body (same extrinsics, same order) and try_recover is never called.     *)
(***************************************************************************)
C5_ConsistentAcceptedBodyIntact ==
    \A t \in Tasks :
        AllConsistent(t) =>
            /\ ExpectedDataSucceeded(t)
            /\ Accepted(t)
            /\ ImportRequest(t).body = request[t].val.body
            /\ body[t] = request[t].val.body
            /\ ~Invoked(t, "try_handle_error")

\* A consistent block whose body is two different extrinsics.
C5_Witness ==
    \E t \in Tasks :
        /\ AllConsistent(t)
        /\ Accepted(t)
        /\ request[t].val.body = Some(<<"x2", "x1">>)

(***************************************************************************)
(* C6: try_recover is called on the errors of the report in the order the  *)
(* oracle returned them; every call but the last one made was answered     *)
(* Some(Ok(())), so the first error e_k answered None or Some(Err) is the  *)
(* last one asked about: e_(k+1)..e_n are never asked about, and the       *)
(* rejection is the one e_k and its answer determine.                      *)
(***************************************************************************)
C6_InOrderShortCircuit ==
    \A t \in Tasks :
        Invoked(t, "try_handle_error") =>
            /\ Mismatches(t)
            /\ Len(Tries(t)) <= Len(ReportErrors(t))
            /\ \A k \in 1..Len(Tries(t)) :
                   /\ AskedAbout(Tries(t)[k], ReportErrors(t)[k])
                   /\ k < Len(Tries(t)) => Recovered(Tries(t)[k])
                   /\ Unhandled(Tries(t)[k]) =>
                          /\ k = Len(Tries(t))
                          /\ Rejected(t)
                          /\ Reason(t) = format_unhandled(ReportErrors(t)[k][1])
                   /\ Vetoed(Tries(t)[k]) =>
                          /\ k = Len(Tries(t))
                          /\ Rejected(t)
                          /\ Reason(t) = format_debug(Tries(t)[k].ret.val.val)

\* Two errors were reported, the first was not recovered, the second never
\* asked about.
C6_Witness ==
    \E t \in Tasks :
        /\ Mismatches(t)
        /\ Len(ReportErrors(t)) = 2
        /\ Len(Tries(t)) = 1
        /\ Unhandled(Tries(t)[1])
        /\ Rejected(t)

(***************************************************************************)
(* C7: when try_recover answers None for a reported error (identifier,     *)
(* payload), the verification ends at once, rejected with the "Unhandled   *)
(* inherent error" reason naming that same identifier.                     *)
(***************************************************************************)
C7_UnhandledRejectsNamingIdentifier ==
    \A t \in Tasks :
        \A k \in 1..Len(Tries(t)) :
            Unhandled(Tries(t)[k]) =>
                /\ k = Len(Tries(t))
                /\ calls[t][Len(calls[t])] = Tries(t)[k]
                /\ Rejected(t)
                /\ Reason(t).fmt = "Unhandled inherent error from '{}'."
                /\ Reason(t).id = from_utf8_lossy(Tries(t)[k].id)
                /\ Tries(t)[k].id = ReportErrors(t)[k][1]

\* The second of two reported errors has no provider; its identifier is not
\* UTF-8.
C7_Witness ==
    \E t \in Tasks :
        /\ Len(Tries(t)) = 2
        /\ Unhandled(Tries(t)[2])
        /\ Tries(t)[2].id[1] = 255
        /\ Rejected(t)

(***************************************************************************)
(* C8: when try_recover answers Some(Err(e)) for a reported error, the     *)
(* verification ends at once, rejected with a reason that carries the      *)
(* provider's error e; the block is not accepted, whatever the answers for *)
(* the other errors.                                                       *)
(***************************************************************************)
C8_VetoRejectsWithDetail ==
    \A t \in Tasks :
        \A k \in 1..Len(Tries(t)) :
            Vetoed(Tries(t)[k]) =>
                /\ k = Len(Tries(t))
                /\ calls[t][Len(calls[t])] = Tries(t)[k]
                /\ Rejected(t)
                /\ ~Accepted(t)
                /\ Reason(t).fmt = "{:?}"
                /\ Reason(t).err = Some(Tries(t)[k].ret.val.val)

\* The first of two reported errors was recovered, the second vetoed.
C8_Witness ==
    \E t \in Tasks :
        /\ Len(Tries(t)) = 2
        /\ Recovered(Tries(t)[1])
        /\ Vetoed(Tries(t)[2])
        /\ Rejected(t)

(***************************************************************************)
(* C9: every rejection caused by a reported inherent error, unhandled      *)
(* (try_recover = None) or vetoed (try_recover = Some(Err)), has a reason  *)
(* that names the identifier of the failing inherent.                      *)
(***************************************************************************)
NamesIdentifier(reason, i) == reason.id = from_utf8_lossy(i)

C9_RejectionNamesIdentifier ==
    \A t \in Tasks :
        \A k \in 1..Len(Tries(t)) :
            (Rejected(t) /\ (Unhandled(Tries(t)[k]) \/ Vetoed(Tries(t)[k]))) =>
                NamesIdentifier(Reason(t), Tries(t)[k].id)

(***************************************************************************)
(* C10: when the report carries errors and every try_recover call made is  *)
(* answered Some(Ok(())), the finished verification has called try_recover *)
(* exactly once per error and has accepted the block with its original     *)
(* body.                                                                   *)
(***************************************************************************)
C10_AllRecoveredAccepted ==
    \A t \in Tasks :
        (Done(t) /\ Mismatches(t) /\ \A k \in 1..Len(Tries(t)) : Recovered(Tries(t)[k])) =>
            /\ Len(Tries(t)) = Len(ReportErrors(t))
            /\ \A k \in 1..Len(ReportErrors(t)) :
                   Cardinality({n \in 1..Len(Tries(t)) :
                                   AskedAbout(Tries(t)[n], ReportErrors(t)[k])}) = 1
            /\ Accepted(t)
            /\ ImportRequest(t).body = request[t].val.body

\* Two reported errors, both recovered, for a body of two extrinsics.
C10_Witness ==
    \E t \in Tasks :
        /\ Done(t) /\ Mismatches(t)
        /\ Len(ReportErrors(t)) = 2
        /\ Len(Tries(t)) = 2
        /\ Recovered(Tries(t)[1]) /\ Recovered(Tries(t)[2])
        /\ request[t].val.body = Some(<<"x1", "x2">>)
        /\ Accepted(t)

(***************************************************************************)
(* C11: an accepted block carries the fork-choice directive Custom(b) with *)
(* b true exactly when the origin is NetworkInitialSync, with or without a *)
(* body and whatever the oracles answered.                                 *)
(***************************************************************************)
C11_ForkChoiceFollowsOrigin ==
    \A t \in Tasks :
        Accepted(t) =>
            ImportRequest(t).fork_choice =
                Some([Custom |-> (request[t].val.origin = "NetworkInitialSync")])

\* Accepted blocks of the initial sync and of the live network, the first
\* after a recovered mismatch.
C11_Witness ==
    \E t \in Tasks :
        /\ Accepted(t)
        /\ request[t].val.origin = "NetworkInitialSync"
        /\ Mismatches(t)
        /\ ImportRequest(t).fork_choice = Some([Custom |-> TRUE])

(***************************************************************************)
(* C12: an accepted block carries its hash: post_hash is present and is    *)
(* the hash computed from the header that was passed to verify.            *)
(***************************************************************************)
C12_PostHashIsHeaderHash ==
    \A t \in Tasks :
        Accepted(t) =>
            /\ ImportRequest(t).post_hash.tag = "Some"
            /\ ImportRequest(t).post_hash.val = hash(request[t].val.header)

\* An accepted block of the header with parent 2.
C12_Witness ==
    \E t \in Tasks :
        /\ Accepted(t)
        /\ HasBody(t)
        /\ request[t].val.header.parent_hash = 2
        /\ ImportRequest(t).post_hash = Some(79)

(***************************************************************************)
(* C13: an accepted block carries the origin, the header and the           *)
(* justifications passed to verify, unchanged (absent justifications stay  *)
(* absent), on the header-only path and on the checked path.               *)
(***************************************************************************)
C13_ArgumentsPassThrough ==
    \A t \in Tasks :
        Accepted(t) =>
            /\ ImportRequest(t).origin = request[t].val.origin
            /\ ImportRequest(t).header = request[t].val.header
            /\ ImportRequest(t).justifications = request[t].val.justifications

\* A checked block accepted with its justifications.
C13_Witness ==
    \E t \in Tasks :
        /\ Accepted(t)
        /\ HasBody(t)
        /\ request[t].val.justifications = Some("j1")
        /\ ImportRequest(t).justifications = Some("j1")

(***************************************************************************)
(* C14: nothing is retried within one verification: the factory, the       *)
(* bundle construction and check are each called at most once, try_recover *)
(* at most once for each error of the report, and a call that fails (Err,  *)
(* None or Some(Err)) is the last oracle call and the block is rejected.   *)
(***************************************************************************)
FailedAnswer(r) ==
    \/ r.tag = "Err"
    \/ r.tag = "None"
    \/ (r.tag = "Some" /\ r.val.tag = "Err")

C14_NoRetry ==
    \A t \in Tasks :
        /\ Len(CallsOf(t, "create_inherent_data_providers")) <= 1
        /\ Len(CallsOf(t, "create_inherent_data")) <= 1
        /\ Len(CallsOf(t, "check_inherents")) <= 1
        /\ CheckSucceeded(t) =>
               \A k \in 1..Len(ReportErrors(t)) :
                   Cardinality({n \in 1..Len(Tries(t)) :
                                   AskedAbout(Tries(t)[n], ReportErrors(t)[k])}) <= 1
        /\ \A k \in 1..Len(calls[t]) :
               FailedAnswer(calls[t][k].ret) =>
                   /\ k = Len(calls[t])
                   /\ Rejected(t)

\* The fifth oracle call, the second try_recover, failed.
C14_Witness ==
    \E t \in Tasks :
        /\ Len(calls[t]) = 5
        /\ FailedAnswer(calls[t][5].ret)
        /\ Rejected(t)

(***************************************************************************)
(* C15: the steps of one verification follow Start -> FetchingBundle ->    *)
(* Checking -> ResolvingErrors(i) -> Accepted | Rejected.  Every oracle    *)
(* call is made after the one before it has been answered; check is called *)
(* after expected_data succeeded, try_recover after check returned a       *)
(* report with errors; the loop is entered at its first error and its      *)
(* position only ever moves forward by one.                                *)
(***************************************************************************)
Rank(op) ==
    CASE op = "create_inherent_data_providers" -> 1
      [] op = "create_inherent_data" -> 2
      [] op = "check_inherents" -> 3
      [] op = "try_handle_error" -> 4

CallOrder(t) ==
    /\ \A k \in 1..(Len(calls[t]) - 1) :
           /\ calls[t][k].ret # Pending
           /\ Rank(calls[t][k].op) <= Rank(calls[t][k + 1].op)
           /\ Rank(calls[t][k].op) = Rank(calls[t][k + 1].op) =>
                  calls[t][k].op = "try_handle_error"
    /\ Invoked(t, "check_inherents") => ExpectedDataSucceeded(t)
    /\ Invoked(t, "try_handle_error") => (Mismatches(t) /\ Len(ReportErrors(t)) > 0)
    /\ pc[t] = "ResolvingErrors" =>
           (errors_pos[t] = Len(Tries(t)) /\ Tries(t)[errors_pos[t]].ret = Pending)
    /\ pc[t] \in {"FetchingBundle", "CreateInherentData", "Checking"} =>
           ~Invoked(t, "try_handle_error")

PhaseOrder(t) ==
    /\ pc'[t] # pc[t] =>
           \/ pc[t] = "Idle" /\ pc'[t] \in {"FetchingBundle", "Done"}
           \/ pc[t] = "FetchingBundle" /\ pc'[t] \in {"CreateInherentData", "Done", "Idle"}
           \/ pc[t] = "CreateInherentData" /\ pc'[t] \in {"Checking", "Done"}
           \/ pc[t] = "Checking" /\ pc'[t] \in {"ResolvingErrors", "Done"}
           \/ pc[t] = "ResolvingErrors" /\ pc'[t] \in {"Done", "Idle"}
           \/ pc[t] = "Done" /\ pc'[t] = "Idle"
    /\ (pc[t] # "ResolvingErrors" /\ pc'[t] = "ResolvingErrors") => errors_pos'[t] = 1
    /\ (pc[t] = "ResolvingErrors" /\ pc'[t] \in {"ResolvingErrors", "Done"}) =>
           errors_pos'[t] \in {errors_pos[t], errors_pos[t] + 1}
    /\ (pc[t] = "ResolvingErrors" /\ pc'[t] = "ResolvingErrors") =>
           (calls'[t] # calls[t] => errors_pos'[t] = errors_pos[t] + 1)

C15_StepsInOrder ==
    /\ [](\A t \in Tasks : CallOrder(t))
    /\ [][\A t \in Tasks : PhaseOrder(t)]_vars

\* The loop is at its second error.
C15_Witness ==
    \E t \in Tasks :
        /\ pc[t] = "ResolvingErrors"
        /\ errors_pos[t] = 2
        /\ Len(calls[t]) = 5

(***************************************************************************)
(* C16: the factory and check are called with the parent hash of the       *)
(* candidate's own header; check gets the bundle create_inherent_data      *)
(* returned in this call and the block made of the input header and the    *)
(* input body; the bundle is built by, and try_recover asked of, the       *)
(* provider set the factory returned in this call.                         *)
(***************************************************************************)
C16_OracleArguments ==
    \A t \in Tasks :
        \A k \in 1..Len(calls[t]) :
            LET c == calls[t][k]
                req == request[t].val
            IN  /\ c.op = "create_inherent_data_providers" =>
                       (c.parent = req.header.parent_hash /\ c.extra = Unit)
                /\ c.op = "create_inherent_data" =>
                       c.providers = Answer(t, "create_inherent_data_providers").val
                /\ c.op = "check_inherents" =>
                       /\ c.at = req.header.parent_hash
                       /\ c.inherent_data = Answer(t, "create_inherent_data").val
                       /\ c.block = BlockNew(req.header, req.body.val)
                /\ c.op = "try_handle_error" =>
                       /\ c.providers = Answer(t, "create_inherent_data_providers").val
                       /\ c.providers = CallsOf(t, "create_inherent_data")[1].providers

\* A verification of the header with parent 2 and a body of two extrinsics
\* has reached try_recover with the second provider set and bundle.
C16_Witness ==
    \E t \in Tasks :
        /\ Invoked(t, "try_handle_error")
        /\ request[t].val.header.parent_hash = 2
        /\ request[t].val.body = Some(<<"x1", "x2">>)
        /\ Answer(t, "create_inherent_data_providers") = Ok("idp2")
        /\ Answer(t, "create_inherent_data") = Ok("data2")

(***************************************************************************)
(* A verification run alone: the oracle calls it makes and the value it    *)
(* returns, as a function of the arguments of verify and of the answers    *)
(* the oracles have given so far.                                          *)
(***************************************************************************)
Unfinished(log) == [calls |-> log, result |-> None]
Finished(log, res) == [calls |-> log, result |-> Some(res)]

RECURSIVE AloneLoop(_, _, _, _, _, _)
AloneLoop(req, p, errs, pos, ans, log) ==
    IF pos > Len(errs)
    THEN Finished(log, Accept(req.origin, req.header, req.justifications, req.body))
    ELSE LET c == CallTryHandle(p, errs[pos])
         IN  IF ans = << >> THEN Unfinished(Append(log, c))
             ELSE LET a == Head(ans)
                      answered == Append(log, [c EXCEPT !.ret = a])
                  IN  IF a = Some(Ok(Unit))
                      THEN AloneLoop(req, p, errs, pos + 1, Tail(ans), answered)
                      ELSE IF a = None
                      THEN Finished(answered, Err(format_unhandled(errs[pos][1])))
                      ELSE Finished(answered, Err(format_debug(a.val.val)))

AloneRun(req, ans) ==
    IF req.body.tag = "None"
    THEN Finished(<< >>, Accept(req.origin, req.header, req.justifications, None))
    ELSE IF Len(ans) = 0 THEN Unfinished(<<CallProviders(req.header)>>)
    ELSE LET c1 == [CallProviders(req.header) EXCEPT !.ret = ans[1]]
         IN  IF ans[1].tag = "Err" THEN Finished(<<c1>>, Err(to_string(ans[1].val)))
             ELSE IF Len(ans) = 1 THEN Unfinished(<<c1>>)
             ELSE LET c2 == CallCreateData(ans[1].val, ans[2])
                  IN  IF ans[2].tag = "Err"
                      THEN Finished(<<c1, c2>>, Err(format_debug(ans[2].val)))
                      ELSE IF Len(ans) = 2 THEN Unfinished(<<c1, c2>>)
                      ELSE LET c3 == CallCheck(req.header,
                                         BlockNew(req.header, req.body.val),
                                         ans[2].val, ans[3])
                           IN  IF ans[3].tag = "Err"
                               THEN Finished(<<c1, c2, c3>>, Err(format_debug(ans[3].val)))
                               ELSE AloneLoop(req, ans[1].val, ans[3].val.errors, 1,
                                              SubSeq(ans, 4, Len(ans)), <<c1, c2, c3>>)

\* The answers task t has received, in order.
AnswersOf(t) ==
    LET got == SelectSeq(calls[t], LAMBDA c : c.ret # Pending)
    IN  [k \in 1..Len(got) |-> got[k].ret]

\* Everything that belongs to the verification in slot t.
Local(t) ==
    <<pc[t], request[t], body[t], inner_body[t], inherent_data_providers[t],
      inherent_data[t], block[t], inherent_res[t], errors_pos[t], calls[t], result[t]>>
\* The same before verify is called.
LocalInitial == <<"Idle", None, None, None, None, None, None, None, 0, << >>, None>>

(***************************************************************************)
(* C17: when verifications interleave at their oracle calls and finish in  *)
(* any order, the oracle calls each one makes and the value it returns are *)
(* those of the same verification run alone with the same answers, and the *)
(* handles of the verifier (client, provider factory) are never modified.  *)
(***************************************************************************)
C17_InterleavingIsInvisible ==
    /\ verifier = VerifierHandles
    /\ \A t \in Tasks :
           Running(t) =>
               LET alone == AloneRun(request[t].val, AnswersOf(t))
               IN  /\ calls[t] = alone.calls
                   /\ result[t] = alone.result
                   /\ Done(t) <=> (alone.result # None)

\* The second verification has finished, accepted after a recovered
\* mismatch, while the first, started with another block, is still
\* suspended in its loop.
C17_Witness ==
    /\ NumTasks >= 2
    /\ pc[1] = "ResolvingErrors"
    /\ Accepted(2) /\ Mismatches(2)
    /\ request[1].val.body # request[2].val.body

(***************************************************************************)
(* C18: a verification dropped at a suspension point (the bundle fetch or  *)
(* a recovery attempt) yields no outcome and leaves nothing behind: its    *)
(* slot and the verifier are as before the call, the other verifications   *)
(* are untouched, and verifications run as they do alone afterwards too.   *)
(***************************************************************************)
DroppedCleanly(t) ==
    (dropped'[t] /\ ~dropped[t]) =>
        /\ pc[t] \in {"FetchingBundle", "ResolvingErrors"}
        /\ result[t] = None
        /\ Local(t)' = LocalInitial
        /\ verifier' = verifier
        /\ \A u \in Tasks \ {t} : Local(u)' = Local(u)

C18_CancellationLeavesNothing ==
    /\ [](\A t \in Tasks : dropped[t] => (Local(t) = LocalInitial /\ verifier = VerifierHandles))
    /\ [](\A t \in Tasks :
             Running(t) => result[t] = AloneRun(request[t].val, AnswersOf(t)).result)
    /\ [][\A t \in Tasks : DroppedCleanly(t)]_vars

\* The first verification has been dropped while the second is suspended
\* in its loop.
C18_Witness ==
    /\ NumTasks >= 2
    /\ dropped[1]
    /\ pc[2] = "ResolvingErrors"

(***************************************************************************)
(* C19: a verification that is not dropped, whose oracle calls all return, *)
(* ends, and it ends with exactly one value, Ok (accepted) or Err          *)
(* (rejected), present exactly when it has ended; by then it has made at   *)
(* most one factory call, one create_inherent_data call, one check call    *)
(* and as many try_recover calls as the report has errors.                 *)
(***************************************************************************)
OneOutcome(t) ==
    /\ Done(t) <=> (result[t] # None)
    /\ Done(t) => (result[t].val.tag \in {"Ok", "Err"})
    /\ Len(CallsOf(t, "create_inherent_data_providers")) <= 1
    /\ Len(CallsOf(t, "create_inherent_data")) <= 1
    /\ Len(CallsOf(t, "check_inherents")) <= 1
    /\ Len(Tries(t)) <= (IF CheckSucceeded(t) THEN Len(ReportErrors(t)) ELSE 0)

C19_Terminates ==
    /\ [](\A t \in Tasks : OneOutcome(t))
    /\ \A t \in Tasks :
           (pc[t] \notin {"Idle", "Done"}) ~> (Done(t) \/ dropped[t])

\* A verification has ended after two recovery attempts.
C19_Witness ==
    \E t \in Tasks :
        /\ Done(t)
        /\ Len(Tries(t)) = 2
        /\ result[t].val.tag = "Ok"

====
